---- MODULE Spec2Model ----
(***************************************************************************)
(* Neon Checkers (src/AI Project/checkers.py): the rules engine            *)
(* (get_piece_moves, get_all_moves, apply_move, is_terminal, winner) and   *)
(* the session that main() keeps in its event loop (board, turn, selected, *)
(* legal_paths_for_selected, undo_stack).                                  *)
(*                                                                         *)
(* A square is a pair <<r, c>>; a board is indexed board[r][c] as in the   *)
(* source, with 1 Red man, 2 Red king, -1 Blue man, -2 Blue king, 0 empty; *)
(* a path is a sequence of squares; Python's None is the empty tuple.      *)
(***************************************************************************)
EXTENDS Integers, Sequences, FiniteSets

VARIABLES
    board,                      \* main: board
    turn,                       \* main: turn (1 Red, -1 Blue)
    selected,                   \* main: selected (None or <<r, c>>)
    legal_paths_for_selected,   \* main: legal_paths_for_selected
    undo_stack,                 \* main: undo_stack, newest snapshot last
    phase,                      \* where main is: "events", "popup" or "quit"
    w,                          \* main: w, the winner handed to the popup; it
                                \* is never read after the popup returns, and
                                \* is "unset" outside the popup
    history,                    \* "full": undo_stack is the whole stack;
                                \* "suffix": older snapshots lie below it
    turns,                      \* history variable: the moves that stand on
                                \* the board, oldest first, each with the
                                \* board and the side to move before it
    last_op                     \* history variable: the last input handled:
                                \* "none", "select", "ignored", "move",
                                \* "undo" or "restart"

vars == <<board, turn, selected, legal_paths_for_selected, undo_stack,
          phase, w, history, turns, last_op>>

----------------------------------------------------------------------------
(* Config *)

ROWS == 8

COLS == 8

(* Bounds of the exploration *)

\* moves the session applies on top of the standard starting position
MaxPly == 2

\* moves the engine applies on top of the standard starting position
MaxPlyEngine == 3

\* moves applied on top of a starting position of a game in progress
MaxPlyInProgress == 1

\* opposing men in a starting position other than the standard one
MaxEnemies == 5

None == <<>>

Squares == (0 .. ROWS - 1) \X (0 .. COLS - 1)

Abs(x) == IF x < 0 THEN -x ELSE x

RECURSIVE Flatten(_)
\* list concatenation of a list of lists, in order
Flatten(ss) == IF ss = <<>> THEN <<>> ELSE Head(ss) \o Flatten(Tail(ss))

Range(s) == {s[i] : i \in 1 .. Len(s)}

----------------------------------------------------------------------------
(* Utilities *)

in_bounds(r, c) == 0 <= r /\ r < ROWS /\ 0 <= c /\ c < COLS

(* Board setup *)

\* the set-up with Red's rows one row nearer to the middle
initial_board_shifted ==
    [r \in 0 .. ROWS - 1 |-> [c \in 0 .. COLS - 1 |->
        IF r < 3 /\ (r + c) % 2 = 1 THEN -1
        ELSE IF r >= 4 /\ r < 7 /\ (r + c) % 2 = 1 THEN 1
        ELSE 0]]

initial_board ==
    [r \in 0 .. ROWS - 1 |-> [c \in 0 .. COLS - 1 |->
        IF r < 3 /\ (r + c) % 2 = 1 THEN -1
        ELSE IF r >= 5 /\ r < 8 /\ (r + c) % 2 = 1 THEN 1
        ELSE 0]]

----------------------------------------------------------------------------
(* Move generation *)

KingDirs == << <<-1, -1>>, <<-1, 1>>, <<1, -1>>, <<1, 1>> >>

\* a Red man's directions with a straight step in place of a diagonal one
RedDirsStraight == << <<-1, -1>>, <<-1, 0>> >>

RedDirs == << <<-1, -1>>, <<-1, 1>> >>

BlueDirs == << <<1, -1>>, <<1, 1>> >>

\* get_piece_moves: the direction list of the piece on the input board
directions(piece) ==
    IF Abs(piece) = 2 THEN KingDirs
    ELSE IF piece > 0 THEN RedDirs ELSE BlueDirs

\* get_piece_moves: the normal (simple) moves, one path per free neighbour
normal_moves(bd, r, c) ==
    LET ds == directions(bd[r][c])
        one(d) == IF in_bounds(r + d[1], c + d[2]) /\ bd[r + d[1]][c + d[2]] = 0
                  THEN << << <<r + d[1], c + d[2]>> >> >>
                  ELSE <<>>
    IN  Flatten([i \in 1 .. Len(ds) |-> one(ds[i])])

\* dfs: the directions scanned from the piece as it stands on the scratch board
scan_dirs(pc) ==
    IF Abs(pc) = 2 THEN KingDirs
    ELSE IF pc > 0 THEN RedDirs ELSE BlueDirs

\* the jump test without the check that the landing square is empty
can_jump_onto_piece(bd, cr, cc, d) ==
    LET pc == bd[cr][cc]
        mr == cr + d[1]
        mc == cc + d[2]
        lr == cr + 2 * d[1]
        lc == cc + 2 * d[2]
    IN  /\ in_bounds(mr, mc)
        /\ in_bounds(lr, lc)
        /\ bd[mr][mc] # 0
        /\ bd[mr][mc] * pc < 0

\* the jump test without the check that the jumped piece is an opponent's
can_jump_any_piece(bd, cr, cc, d) ==
    LET mr == cr + d[1]
        mc == cc + d[2]
        lr == cr + 2 * d[1]
        lc == cc + 2 * d[2]
    IN  /\ in_bounds(mr, mc)
        /\ in_bounds(lr, lc)
        /\ bd[mr][mc] # 0
        /\ bd[lr][lc] = 0

\* dfs: the test that the piece on (cr, cc) can jump in direction d
can_jump(bd, cr, cc, d) ==
    LET pc == bd[cr][cc]
        mr == cr + d[1]
        mc == cc + d[2]
        lr == cr + 2 * d[1]
        lc == cc + 2 * d[2]
    IN  /\ in_bounds(mr, mc)
        /\ in_bounds(lr, lc)
        /\ bd[mr][mc] # 0
        /\ bd[mr][mc] * pc < 0
        /\ bd[lr][lc] = 0

\* dfs: "king if lands on last row", on the scratch board
scratch_king(v, lr) ==
    IF v = 1 /\ lr = 0 THEN 2
    ELSE IF v = -1 /\ lr = ROWS - 1 THEN -2
    ELSE v

\* dfs: "perform jump on clone"
jump_board(bd, cr, cc, d) ==
    LET m == <<cr + d[1], cc + d[2]>>
        l == <<cr + 2 * d[1], cc + 2 * d[2]>>
    IN  [bd EXCEPT ![l[1]][l[2]] = scratch_king(bd[cr][cc], l[1]),
                   ![cr][cc] = 0,
                   ![m[1]][m[2]] = 0]

RECURSIVE dfs_every_stop(_, _, _, _)
\* the search that records the accumulated path on every square it lands
\* on, not only where no further jump is found
dfs_every_stop(bd, cr, cc, path) ==
    LET sd == scan_dirs(bd[cr][cc])
        sub(d) == IF can_jump(bd, cr, cc, d)
                  THEN dfs_every_stop(jump_board(bd, cr, cc, d),
                                      cr + 2 * d[1], cc + 2 * d[2],
                                      Append(path, <<cr + 2 * d[1], cc + 2 * d[2]>>))
                  ELSE <<>>
    IN  (IF path # <<>> THEN <<path>> ELSE <<>>)
            \o Flatten([i \in 1 .. Len(sd) |-> sub(sd[i])])

RECURSIVE dfs(_, _, _, _)
\* dfs: the capture paths appended to capture_moves below (cr, cc), in the
\* order the search appends them.  The visited argument is passed down and
\* never read, so it is left out.
dfs(bd, cr, cc, path) ==
    LET sd == scan_dirs(bd[cr][cc])
        sub(d) == IF can_jump(bd, cr, cc, d)
                  THEN dfs(jump_board(bd, cr, cc, d), cr + 2 * d[1], cc + 2 * d[2],
                           Append(path, <<cr + 2 * d[1], cc + 2 * d[2]>>))
                  ELSE <<>>
        found_any == \E i \in 1 .. Len(sd) : can_jump(bd, cr, cc, sd[i])
    IN  IF found_any THEN Flatten([i \in 1 .. Len(sd) |-> sub(sd[i])])
        ELSE IF path # <<>> THEN <<path>>
        ELSE <<>>

\* get_piece_moves: the list capture_moves, filled by dfs(board, r, c, [], set())
capture_moves(bd, r, c) ==
    IF bd[r][c] = 0 THEN <<>> ELSE dfs(bd, r, c, <<>>)

\* get_piece_moves(board, r, c): [nm |-> normal_moves, cm |-> capture_moves]
get_piece_moves(bd, r, c) ==
    IF bd[r][c] = 0 THEN [nm |-> <<>>, cm |-> <<>>]
    ELSE [nm |-> normal_moves(bd, r, c), cm |-> capture_moves(bd, r, c)]

\* the squares in the order of "for r in range(ROWS): for c in range(COLS)"
ScanOrder == [i \in 1 .. ROWS * COLS |-> <<(i - 1) \div COLS, (i - 1) % COLS>>]

\* a list of paths of the piece on sq, as a list of moves (r, c, p)
with_origin(sq, ps) == [i \in 1 .. Len(ps) |-> <<sq[1], sq[2], ps[i]>>]

\* get_all_moves: the list captures
captures_of(bd, player) ==
    Flatten([i \in 1 .. ROWS * COLS |->
        IF bd[ScanOrder[i][1]][ScanOrder[i][2]] * player > 0
        THEN with_origin(ScanOrder[i],
                         capture_moves(bd, ScanOrder[i][1], ScanOrder[i][2]))
        ELSE <<>>])

\* get_all_moves: the list normals
normals_of(bd, player) ==
    Flatten([i \in 1 .. ROWS * COLS |->
        IF bd[ScanOrder[i][1]][ScanOrder[i][2]] * player > 0
        THEN with_origin(ScanOrder[i],
                         normal_moves(bd, ScanOrder[i][1], ScanOrder[i][2]))
        ELSE <<>>])

\* get_all_moves without the forced-capture rule: captures and normals together
get_all_moves_unforced(bd, player) ==
    captures_of(bd, player) \o normals_of(bd, player)

\* get_all_moves(board, player): "return captures if captures else normals"
get_all_moves(bd, player) ==
    IF captures_of(bd, player) # <<>> THEN captures_of(bd, player)
    ELSE normals_of(bd, player)

----------------------------------------------------------------------------
(* Apply move *)

RECURSIVE walk_keeps_captured(_, _, _, _)
\* the loop over the path that leaves the jumped pieces on the board
walk_keeps_captured(nb, cr, cc, path) ==
    IF path = <<>> THEN [nb |-> nb, cr |-> cr, cc |-> cc]
    ELSE walk_keeps_captured(nb, Head(path)[1], Head(path)[2], Tail(path))

RECURSIVE walk(_, _, _, _)
\* apply_move: the loop over the path; the board with the jumped squares
\* cleared, and the square the walk ends on
walk(nb, cr, cc, path) ==
    IF path = <<>> THEN [nb |-> nb, cr |-> cr, cc |-> cc]
    ELSE LET nr == Head(path)[1]
             nc == Head(path)[2]
             is_jump == Abs(nr - cr) = 2 \/ Abs(nc - cc) = 2
             cleared == IF is_jump
                        THEN [nb EXCEPT ![(nr + cr) \div 2][(nc + cc) \div 2] = 0]
                        ELSE nb
         IN  walk(cleared, nr, nc, Tail(path))

\* kinging that promotes a Man on whatever row the path ends
kinging_any_row(v, cr) ==
    IF v = 1 THEN 2
    ELSE IF v = -1 THEN -2
    ELSE v

\* apply_move: kinging of the piece put on the last square of the path
kinging(v, cr) ==
    IF v = 1 /\ cr = 0 THEN 2
    ELSE IF v = -1 /\ cr = ROWS - 1 THEN -2
    ELSE v

\* apply_move that leaves the moving piece on its origin square as well
apply_move_keeps_origin(bd, sr, sc, path) ==
    LET piece == bd[sr][sc]
        end == walk(bd, sr, sc, path)
    IN  [end.nb EXCEPT ![end.cr][end.cc] = kinging(piece, end.cr)]

\* apply_move(board, (sr, sc, path))
apply_move(bd, sr, sc, path) ==
    LET piece == bd[sr][sc]
        end == walk([bd EXCEPT ![sr][sc] = 0], sr, sc, path)
    IN  [end.nb EXCEPT ![end.cr][end.cc] = kinging(piece, end.cr)]

----------------------------------------------------------------------------
(* Terminal / Winner *)

has_red(bd) == \E r \in 0 .. ROWS - 1, c \in 0 .. COLS - 1 : bd[r][c] > 0

has_blue(bd) == \E r \in 0 .. ROWS - 1, c \in 0 .. COLS - 1 : bd[r][c] < 0

\* the terminal test that also ends the game when a side has no move
is_terminal_or_blocked(bd) ==
    \/ ~has_red(bd)
    \/ ~has_blue(bd)
    \/ get_all_moves(bd, 1) = <<>>
    \/ get_all_moves(bd, -1) = <<>>

is_terminal(bd) == ~has_red(bd) \/ ~has_blue(bd)

\* winner with the two names exchanged
winner_swapped(bd) ==
    IF has_red(bd) /\ ~has_blue(bd) THEN "Blue"
    ELSE IF has_blue(bd) /\ ~has_red(bd) THEN "Red"
    ELSE "None"

winner(bd) ==
    IF has_red(bd) /\ ~has_blue(bd) THEN "Red"
    ELSE IF has_blue(bd) /\ ~has_red(bd) THEN "Blue"
    ELSE "None"

----------------------------------------------------------------------------
(* Main: the session *)

\* main, click handler: "build all captures for current player"
all_captures(bd, player) ==
    Flatten([i \in 1 .. ROWS * COLS |->
        IF bd[ScanOrder[i][1]][ScanOrder[i][2]] * player > 0
        THEN with_origin(ScanOrder[i],
                         capture_moves(bd, ScanOrder[i][1], ScanOrder[i][2]))
        ELSE <<>>])

\* the paths of a piece under a forced-capture rule applied piece by piece
paths_for_selection_per_piece(bd, player, r, c) ==
    IF capture_moves(bd, r, c) # <<>> THEN capture_moves(bd, r, c)
    ELSE normal_moves(bd, r, c)

\* main, click handler: the paths shown for a piece that is being selected,
\* "cm if all_captures else nm"
paths_for_selection(bd, player, r, c) ==
    IF all_captures(bd, player) # <<>> THEN capture_moves(bd, r, c)
    ELSE normal_moves(bd, r, c)

RECURSIVE chosen_path_first_square(_, _, _)
\* the lookup that compares the clicked square with the first square of a path
chosen_path_first_square(paths, r, c) ==
    IF paths = <<>> THEN None
    ELSE IF Head(paths)[1] = <<r, c>> THEN Head(paths)
    ELSE chosen_path_first_square(Tail(paths), r, c)

RECURSIVE chosen_path_any_square(_, _, _)
\* the lookup that takes a path as soon as it passes over the clicked square
chosen_path_any_square(paths, r, c) ==
    IF paths = <<>> THEN None
    ELSE IF \E i \in 1 .. Len(Head(paths)) : Head(paths)[i] = <<r, c>>
         THEN Head(paths)
    ELSE chosen_path_any_square(Tail(paths), r, c)

RECURSIVE chosen_path(_, _, _)
\* main, click handler: the first offered path that ends on the clicked
\* square, None when there is none
chosen_path(paths, r, c) ==
    IF paths = <<>> THEN None
    ELSE IF Head(paths)[Len(Head(paths))] = <<r, c>> THEN Head(paths)
    ELSE chosen_path(Tail(paths), r, c)

\* main, click handler: whether any hop of the chosen path spans two squares
jumped(sel, path) ==
    \E i \in 1 .. Len(path) :
        \/ Abs(path[i][1] - (IF i = 1 THEN sel[1] ELSE path[i - 1][1])) = 2
        \/ Abs(path[i][2] - (IF i = 1 THEN sel[2] ELSE path[i - 1][2])) = 2

\* main, line 274: the squares highlighted as destinations
move_highlights(paths) == {paths[i][Len(paths[i])] : i \in 1 .. Len(paths)}

\* the side to move left as it is
switch_turn_stays(player) == player

\* main, click handler: the side to move after a move that ends the turn
switch_turn(player) == player * (-1)

\* the snapshot taken with the side that moves next
snapshot_next_side(bd, player) == <<bd, switch_turn(player)>>

\* main, click handler: the snapshot pushed before a move is applied
snapshot(bd, player) == <<bd, player>>

(* Starting positions.  Besides the standard one the exploration starts in  *)
(* positions of a game in progress: one piece of the side to move on an    *)
(* origin square and up to MaxEnemies opposing men on the squares it could *)
(* jump over; and a Red man on the left edge with Blue men in front of it, *)
(* either side to move.  The snapshots that led there are not enumerated   *)
(* (history = "suffix"), and undo is not followed below the starting       *)
(* position.                                                               *)

Origins == {<<2, 1>>, <<2, 3>>, <<4, 3>>}

EnemySquares == {1, 3, 5} \X {2, 4}

Kinds == {1, 2, -1, -2}

position(o, k, S) ==
    [r \in 0 .. ROWS - 1 |-> [c \in 0 .. COLS - 1 |->
        IF <<r, c>> = o THEN k
        ELSE IF <<r, c>> \in S THEN (IF k > 0 THEN -1 ELSE 1)
        ELSE 0]]

EdgeOrigin == <<3, 0>>

EdgeEnemySquares == {<<2, 1>>, <<1, 2>>, <<0, 1>>}

InitStandard ==
    /\ board = initial_board
    /\ turn = 1
    /\ history = "full"

InitInProgress ==
    \E o \in Origins, k \in Kinds, S \in SUBSET EnemySquares :
        /\ S # {}
        /\ Cardinality(S) <= MaxEnemies
        /\ board = position(o, k, S)
        /\ turn = (IF k > 0 THEN 1 ELSE -1)
        /\ history = "suffix"

InitEdge ==
    \E S \in SUBSET EdgeEnemySquares, t \in {1, -1} :
        /\ S # {}
        /\ board = position(EdgeOrigin, 1, S)
        /\ turn = t
        /\ history = "suffix"

Init ==
    /\ InitStandard \/ InitInProgress \/ InitEdge
    /\ selected = None
    /\ legal_paths_for_selected = <<>>
    /\ undo_stack = <<>>
    /\ phase = "events"
    /\ w = "unset"
    /\ turns = <<>>
    /\ last_op = "none"

\* the moves explored on top of the position the behaviour started in
PlyBound == IF history = "full" THEN MaxPly ELSE MaxPlyInProgress

\* main, lines 300-364: a left click on square (r, c) of the board
Click(r, c) ==
    /\ phase = "events"
    /\ \E piece \in {board[r][c]},
          chosen \in {chosen_path(legal_paths_for_selected, r, c)} :
           IF selected = None \/ chosen = None
           THEN \* select, reselect or drop the selection
                /\ IF piece * turn > 0
                   THEN /\ selected' = <<r, c>>
                        /\ legal_paths_for_selected' =
                               paths_for_selection(board, turn, r, c)
                        /\ last_op' = "select"
                   ELSE /\ selected' = None
                        /\ legal_paths_for_selected' = <<>>
                        /\ last_op' = "ignored"
                /\ UNCHANGED <<board, turn, undo_stack, phase, w, history, turns>>
           ELSE \* a legal destination: save undo, apply the move
                \E nb \in {apply_move(board, selected[1], selected[2], chosen)},
                   end \in {chosen[Len(chosen)]} :
                  \E further_caps \in {capture_moves(nb, end[1], end[2])} :
                    /\ Len(undo_stack) < PlyBound
                    /\ undo_stack' = Append(undo_stack, snapshot(board, turn))
                    /\ board' = nb
                    /\ IF jumped(selected, chosen) /\ further_caps # <<>>
                       THEN /\ selected' = end
                            /\ legal_paths_for_selected' = further_caps
                            /\ turn' = turn
                       ELSE /\ turn' = switch_turn(turn)
                            /\ selected' = None
                            /\ legal_paths_for_selected' = <<>>
                    /\ turns' = Append(turns,
                                        [sr |-> selected[1], sc |-> selected[2],
                                         path |-> chosen, board |-> board,
                                         turn |-> turn])
                    /\ last_op' = "move"
                    /\ UNCHANGED <<phase, w, history>>

\* the R key with the undo history kept
RestartKeepsUndo ==
    /\ phase = "events"
    /\ board' = initial_board
    /\ turn' = 1
    /\ selected' = None
    /\ legal_paths_for_selected' = <<>>
    /\ history' = "full"
    /\ turns' = <<>>
    /\ last_op' = "restart"
    /\ UNCHANGED <<undo_stack, phase, w>>

\* main, lines 290-293: the R key
Restart ==
    /\ phase = "events"
    /\ board' = initial_board
    /\ turn' = 1
    /\ selected' = None
    /\ legal_paths_for_selected' = <<>>
    /\ undo_stack' = <<>>
    /\ history' = "full"
    /\ turns' = <<>>
    /\ last_op' = "restart"
    /\ UNCHANGED <<phase, w>>

\* main, lines 294-299: the U key
Undo ==
    /\ phase = "events"
    /\ ~(undo_stack = <<>> /\ history = "suffix")
    /\ IF undo_stack # <<>>
       THEN /\ board' = undo_stack[Len(undo_stack)][1]
            /\ turn' = undo_stack[Len(undo_stack)][2]
            /\ undo_stack' = SubSeq(undo_stack, 1, Len(undo_stack) - 1)
            /\ selected' = None
            /\ legal_paths_for_selected' = <<>>
            /\ turns' = SubSeq(turns, 1, Len(turns) - 1)
            /\ UNCHANGED <<phase, w, history>>
       ELSE UNCHANGED <<board, turn, selected, legal_paths_for_selected,
                        undo_stack, phase, w, history, turns>>
    /\ last_op' = "undo"

\* main, lines 259-266: the terminal check at the start of a frame, taken
\* when the batch of events of the previous frame has been handled
FrameCheck ==
    /\ phase = "events"
    /\ is_terminal(board)
    /\ w' = winner(board)
    /\ phase' = "popup"
    /\ UNCHANGED <<board, turn, selected, legal_paths_for_selected, undo_stack,
                   history, turns, last_op>>

\* show_win_popup returns "restart" (the R key); main, lines 267-270
PopupRestart ==
    /\ phase = "popup"
    /\ board' = initial_board
    /\ turn' = 1
    /\ selected' = None
    /\ legal_paths_for_selected' = <<>>
    /\ undo_stack' = <<>>
    /\ history' = "full"
    /\ turns' = <<>>
    /\ last_op' = "restart"
    /\ phase' = "events"
    /\ w' = "unset"

\* the Q key or the window's close button, in main or in the popup
Quit ==
    /\ phase \in {"events", "popup"}
    /\ phase' = "quit"
    /\ UNCHANGED <<board, turn, selected, legal_paths_for_selected, undo_stack,
                   w, history, turns, last_op>>

Next ==
    \/ \E r \in 0 .. ROWS - 1, c \in 0 .. COLS - 1 : Click(r, c)
    \/ Restart
    \/ Undo
    \/ FrameCheck
    \/ PopupRestart
    \/ Quit

Spec == Init /\ [][Next]_vars

(* The rules engine on its own: a move that get_all_moves lists for the    *)
(* side to move is applied with apply_move and the other side moves next.  *)

\* the moves the engine applies on top of the position it started in
PlyBoundEngine == IF history = "full" THEN MaxPlyEngine ELSE MaxPlyInProgress

\* apply_move(board, m) for a move m of get_all_moves(board, turn)
Play ==
    /\ Len(turns) < PlyBoundEngine
    /\ \E m \in Range(get_all_moves(board, turn)) :
           /\ board' = apply_move(board, m[1], m[2], m[3])
           /\ turns' = Append(turns, [sr |-> m[1], sc |-> m[2], path |-> m[3],
                                      board |-> board, turn |-> turn])
    /\ turn' = switch_turn(turn)
    /\ last_op' = "move"
    /\ UNCHANGED <<selected, legal_paths_for_selected, undo_stack, phase, w, history>>

NextEngine == Play

SpecEngine == Init /\ [][NextEngine]_vars

----------------------------------------------------------------------------
(* Properties *)

Sides == {1, -1}

\* the squares of bd that hold a piece of player
OwnSquares(bd, player) == {sq \in Squares : bd[sq[1]][sq[2]] * player > 0}

\* a move (r, c, path) whose first hop spans two squares
IsCaptureMove(m) == Abs(m[3][1][1] - m[1]) = 2 \/ Abs(m[3][1][2] - m[2]) = 2

\* the capture chains of all of player's pieces, as moves (r, c, path)
CaptureChains(bd, player) ==
    UNION {{<<sq[1], sq[2], p>> : p \in Range(capture_moves(bd, sq[1], sq[2]))} :
           sq \in OwnSquares(bd, player)}

\* the single-step moves of all of player's pieces, as moves (r, c, path)
NormalSteps(bd, player) ==
    UNION {{<<sq[1], sq[2], p>> : p \in Range(normal_moves(bd, sq[1], sq[2]))} :
           sq \in OwnSquares(bd, player)}

\* C1: on every board and for either side, a result of get_all_moves that
\* holds a capture move holds no single-step move; the result is the set of
\* capture chains of all of that side's pieces when there is one, and the
\* union of the single-step moves of its pieces only when there is none.
C1_ForcedCapture ==
    \A player \in Sides :
        \A res \in {Range(get_all_moves(board, player))},
           chains \in {CaptureChains(board, player)} :
            /\ (\E m \in res : IsCaptureMove(m)) => (\A m \in res : IsCaptureMove(m))
            /\ chains # {} => res = chains
            /\ chains = {} => res = NormalSteps(board, player)

\* C1 witness: the side to move has a piece that can capture and another
\* piece that has a single-step move, which the result leaves out
C1_Witness ==
    /\ CaptureChains(board, turn) # {}
    /\ \E m \in NormalSteps(board, turn) :
           /\ m \notin Range(get_all_moves(board, turn))
           /\ \A k \in CaptureChains(board, turn) : <<k[1], k[2]>> # <<m[1], m[2]>>

\* the squares of bd that hold a Man of either side
ManSquares(bd) == {sq \in Squares : Abs(bd[sq[1]][sq[2]]) = 1}

\* the far edge row of a piece: row 0 for Red, row ROWS - 1 for Blue
FarRow(piece) == IF piece > 0 THEN 0 ELSE ROWS - 1

Last(s) == s[Len(s)]

RECURSIVE scratch_after(_, _, _, _)
\* the scratch board the search holds after it has jumped from (cr, cc)
\* along path: jump_board, hop by hop
scratch_after(bd, cr, cc, path) ==
    IF path = <<>> THEN bd
    ELSE LET l == Head(path)
             d == <<(l[1] - cr) \div 2, (l[2] - cc) \div 2>>
         IN  scratch_after(jump_board(bd, cr, cc, d), l[1], l[2], Tail(path))

\* the applied move that produced board promoted a Man exactly when its
\* final landing square is the Man's far edge row
PromotionWhenApplied ==
    turns # <<>> =>
        LET t == Last(turns)
            piece == t.board[t.sr][t.sc]
            end == Last(t.path)
            now == board[end[1]][end[2]]
        IN  Abs(piece) = 1 =>
                /\ now = (IF end[1] = FarRow(piece) THEN 2 * piece ELSE piece)

\* while a chain of a Man is generated, the piece is still a Man on every
\* landing square of the chain but the last
NoPromotionWhileGenerated ==
    \A sq \in ManSquares(board) :
        \A p \in Range(capture_moves(board, sq[1], sq[2])) :
            \A i \in 1 .. Len(p) - 1 :
                scratch_after(board, sq[1], sq[2], SubSeq(p, 1, i))[p[i][1]][p[i][2]]
                    = board[sq[1]][sq[2]]

\* C2: a Man is promoted to King if and only if the final landing square of
\* the applied move is row 0 for Red or row 7 for Blue, and it is promoted on
\* no earlier square of a multi-jump chain, neither on the applied board nor
\* while the chain is generated.
C2_PromotionOnlyAtEnd == PromotionWhenApplied /\ NoPromotionWhileGenerated

\* a hop from (r1, c1) to (r2, c2) in a forward diagonal of piece
ForwardHop(piece, r1, r2) == IF piece > 0 THEN r2 < r1 ELSE r2 > r1

\* C3: every hop of every capture chain that get_piece_moves returns for a
\* Man goes in one of the Man's two forward diagonals (decreasing row for
\* Red, increasing row for Blue), also after the chain touched the far row.
C3_ManChainsForward ==
    \A sq \in ManSquares(board) :
        \A p \in Range(capture_moves(board, sq[1], sq[2])) :
            \A i \in 1 .. Len(p) :
                ForwardHop(board[sq[1]][sq[2]],
                           IF i = 1 THEN sq[1] ELSE p[i - 1][1], p[i][1])

Front(s) == SubSeq(s, 1, Len(s) - 1)

\* C4: undo is a strict inverse of a completed turn: an undo handled while
\* moves stand on the board restores exactly the board and the side to move
\* that held before the last of them, clears the selection, and leaves the
\* stack ready to walk back the turn before it.
C4_UndoInverse ==
    [][(Undo /\ turns # <<>>) =>
          /\ board' = Last(turns).board
          /\ turn' = Last(turns).turn
          /\ selected' = None
          /\ legal_paths_for_selected' = <<>>
          /\ undo_stack' = Front(undo_stack)]_vars

\* C4 witness: after two completed turns an undo has been handled, and the
\* board of before the second turn is back with its side to move
C4_Witness ==
    /\ last_op = "undo"
    /\ Len(turns) = 1
    /\ board = apply_move(turns[1].board, turns[1].sr, turns[1].sc, turns[1].path)
    /\ turn = switch_turn(turns[1].turn)
    /\ selected = None

\* the position of the multi-jump scenario: a Blue man on (2,1) that can
\* jump a Red piece on (3,2) to (4,3) and from there a second one on (5,4)
\* to (6,5)
TwoHopScenario(bd) ==
    /\ bd[2][1] = -1
    /\ bd[3][2] > 0
    /\ bd[4][3] = 0
    /\ bd[5][4] > 0
    /\ bd[6][5] = 0

TwoHopPath == << <<4, 3>>, <<6, 5>> >>

\* the squares jumped by the hops of path, started on (sr, sc)
Midpoints(sr, sc, path) ==
    {<<((IF i = 1 THEN sr ELSE path[i - 1][1]) + path[i][1]) \div 2,
       ((IF i = 1 THEN sc ELSE path[i - 1][2]) + path[i][2]) \div 2>> :
        i \in {k \in 1 .. Len(path) :
                 Abs(path[k][1] - (IF k = 1 THEN sr ELSE path[k - 1][1])) = 2}}

\* selecting the piece of the scenario offers the two-step capture path
TwoHopOffered ==
    (TwoHopScenario(board) /\ turn = -1 /\ selected = <<2, 1>>)
        => \E i \in 1 .. Len(legal_paths_for_selected) :
               legal_paths_for_selected[i] = TwoHopPath

\* the session can take input and apply one more move
CanMove == phase = "events" /\ selected # None /\ Len(undo_stack) < PlyBound

\* C5 as stated: the two-step path is offered, and of every offered path of
\* two or more hops the player can apply the first hop alone, which leaves
\* the same piece selected on its landing square with capture paths offered
\* and the turn not passed.
C5_FirstHopContinuation ==
    /\ TwoHopOffered
    /\ CanMove =>
           \A p \in Range(legal_paths_for_selected) :
               Len(p) >= 2 =>
                   ENABLED (/\ Click(p[1][1], p[1][2])
                            /\ board' = apply_move(board, selected[1], selected[2],
                                                   <<p[1]>>)
                            /\ selected' = p[1]
                            /\ legal_paths_for_selected' # <<>>
                            /\ turn' = turn)

\* in the scenario the click on (6,5) applies the whole two-step chain
TwoHopApplicable ==
    (TwoHopScenario(board) /\ turn = -1 /\ selected = <<2, 1>> /\ CanMove)
        => ENABLED (/\ Click(6, 5)
                    /\ board' = apply_move(board, 2, 1, TwoHopPath)
                    /\ turn' = 1
                    /\ selected' = None)

\* C5 amended: the two-step path is offered and the click on its final
\* square applies it; a click on the first landing square of an offered
\* chain, when no offered chain ends there, applies nothing; an applied
\* chain is applied as a whole (every jumped square is empty afterwards),
\* passes the turn and leaves no selection, so that no continuation state
\* arises.
C5_WholeChainOnly ==
    /\ TwoHopOffered
    /\ TwoHopApplicable
    /\ CanMove =>
           \A p \in Range(legal_paths_for_selected) :
               (Len(p) >= 2 /\ p[1] \notin move_highlights(legal_paths_for_selected))
                   => ~ENABLED (Click(p[1][1], p[1][2]) /\ board' # board)
    /\ last_op = "move" =>
           /\ selected = None
           /\ legal_paths_for_selected = <<>>
           /\ turn = switch_turn(Last(turns).turn)
           /\ \A m \in Midpoints(Last(turns).sr, Last(turns).sc, Last(turns).path) :
                  board[m[1]][m[2]] = 0
           /\ board[Last(Last(turns).path)[1]][Last(Last(turns).path)[2]]
                  * Last(turns).turn > 0

\* C5 witness: in the scenario the whole two-step chain has been applied:
\* both Red pieces are gone, the Blue man stands on (6,5), Red is to move
C5_Witness ==
    /\ last_op = "move"
    /\ TwoHopScenario(Last(turns).board)
    /\ Last(turns).sr = 2 /\ Last(turns).sc = 1
    /\ Last(turns).path = TwoHopPath
    /\ board[3][2] = 0 /\ board[5][4] = 0 /\ board[6][5] = -1
    /\ turn = 1

\* the squares of bd that hold a piece
Occupied(bd) == {sq \in Squares : bd[sq[1]][sq[2]] # 0}

\* the square a chain stands on before its hop i, started on sq
Before(sq, p, i) == IF i = 1 THEN sq ELSE p[i - 1]

\* the square jumped by hop i of chain p, started on sq
Mid(sq, p, i) ==
    <<(Before(sq, p, i)[1] + p[i][1]) \div 2, (Before(sq, p, i)[2] + p[i][2]) \div 2>>

\* hop i of chain p of the piece on sq spans two squares diagonally and
\* jumps a piece of the opposing side, on the board as the search holds it
\* before the hop
HopJumpsOpponent(bd, sq, p, i) ==
    /\ Abs(p[i][1] - Before(sq, p, i)[1]) = 2
    /\ Abs(p[i][2] - Before(sq, p, i)[2]) = 2
    /\ \A scratch \in {scratch_after(bd, sq[1], sq[2], SubSeq(p, 1, i - 1))} :
           scratch[Mid(sq, p, i)[1]][Mid(sq, p, i)[2]] * bd[sq[1]][sq[2]] < 0

\* C6 as stated: every hop of every returned chain spans two squares
\* diagonally and jumps an opposing piece, and every intermediate landing
\* square is empty on the original board unless a capture made earlier in
\* the chain vacated it.
C6_LandingsEmptyOrCaptured ==
    \A sq \in Occupied(board) :
        \A p \in Range(capture_moves(board, sq[1], sq[2])) :
            \A i \in 1 .. Len(p) :
                /\ HopJumpsOpponent(board, sq, p, i)
                /\ i < Len(p) =>
                       \/ board[p[i][1]][p[i][2]] = 0
                       \/ \E j \in 1 .. i - 1 : p[i] = Mid(sq, p, j)

\* C6 amended: as stated, except that an intermediate landing square may
\* also be the chain's own origin square, which the moving piece left.
C6_LandingsEmptyOrOrigin ==
    \A sq \in Occupied(board) :
        \A p \in Range(capture_moves(board, sq[1], sq[2])) :
            \A i \in 1 .. Len(p) :
                /\ HopJumpsOpponent(board, sq, p, i)
                /\ i < Len(p) =>
                       \/ board[p[i][1]][p[i][2]] = 0
                       \/ \E j \in 1 .. i - 1 : p[i] = Mid(sq, p, j)
                       \/ p[i] = sq

\* C6 witness: a returned chain lands on its own origin square and goes on
C6_Witness ==
    \E sq \in Occupied(board) :
        \E p \in Range(capture_moves(board, sq[1], sq[2])) :
            \E i \in 1 .. Len(p) - 1 : p[i] = sq

NumRed(bd) == Cardinality({sq \in Squares : bd[sq[1]][sq[2]] > 0})

NumBlue(bd) == Cardinality({sq \in Squares : bd[sq[1]][sq[2]] < 0})

\* C7: a board without pieces of one side is terminal and won by the other
\* side; a board with pieces of both sides is not terminal and has no
\* winner; is_terminal holds exactly when winner is not None.
C7_TerminalWinner ==
    /\ NumBlue(board) = 0 => (is_terminal(board) /\ winner(board) = "Red")
    /\ NumRed(board) = 0 => (is_terminal(board) /\ winner(board) = "Blue")
    /\ (NumRed(board) > 0 /\ NumBlue(board) > 0)
           => (~is_terminal(board) /\ winner(board) = "None")
    /\ is_terminal(board) <=> winner(board) # "None"

\* C7 witness: a move has taken the last Blue piece, and the terminal check
\* has handed Red to the popup
C7_Witness ==
    /\ phase = "popup"
    /\ turns # <<>>
    /\ NumBlue(Last(turns).board) > 0
    /\ NumBlue(board) = 0
    /\ w = "Red"

Dark(sq) == (sq[1] + sq[2]) % 2 = 1

\* C8: only dark squares (row + col odd) are occupied, and every landing
\* square of every offered path is dark.
C8_DarkSquaresOnly ==
    /\ \A sq \in Squares : board[sq[1]][sq[2]] # 0 => Dark(sq)
    /\ \A p \in Range(legal_paths_for_selected) : \A i \in 1 .. Len(p) : Dark(p[i])

\* C8 witness: after a capture has been applied a piece is selected and is
\* offered paths
C8_Witness ==
    /\ turns # <<>>
    /\ jumped(<<Last(turns).sr, Last(turns).sc>>, Last(turns).path)
    /\ selected # None
    /\ legal_paths_for_selected # <<>>

\* C9: with a selection, the selected square holds a piece of the side to
\* move and the offered paths are exactly the paths that get_all_moves lists
\* for that origin on the current board.
C9_OfferedPaths ==
    selected # None =>
        /\ board[selected[1]][selected[2]] * turn > 0
        /\ Range(legal_paths_for_selected) =
               {m[3] : m \in {x \in Range(get_all_moves(board, turn)) :
                                 x[1] = selected[1] /\ x[2] = selected[2]}}

\* C9 witness: the selected piece has a single step free but is offered
\* nothing, because another piece of its side can capture
C9_Witness ==
    /\ selected # None
    /\ legal_paths_for_selected = <<>>
    /\ normal_moves(board, selected[1], selected[2]) # <<>>
    /\ capture_moves(board, selected[1], selected[2]) = <<>>
    /\ all_captures(board, turn) # <<>>

\* C10: for every offered path there is a destination click that applies
\* exactly that path (the click on its final square, the one square that
\* stands for it among the highlights), also when two offered chains end on
\* the same square.
C10_EveryPathSelectable ==
    CanMove =>
        \A p \in Range(legal_paths_for_selected) :
            ENABLED (/\ Click(Last(p)[1], Last(p)[2])
                     /\ board' = apply_move(board, selected[1], selected[2], p))

\* the moves Red has on the standard initial board, as moves (r, c, path)
OpeningMoves ==
    { <<5, 0, << <<4, 1>> >> >>,
      <<5, 2, << <<4, 1>> >> >>, <<5, 2, << <<4, 3>> >> >>,
      <<5, 4, << <<4, 3>> >> >>, <<5, 4, << <<4, 5>> >> >>,
      <<5, 6, << <<4, 5>> >> >>, <<5, 6, << <<4, 7>> >> >> }

\* the board of the game's start: 12 Blue men on the dark squares of rows
\* 0-2, 12 Red men on the dark squares of rows 5-7, nothing else
StandardSetup(bd) ==
    /\ {sq \in Squares : bd[sq[1]][sq[2]] = -1} =
           {sq \in Squares : sq[1] \in 0 .. 2 /\ Dark(sq)}
    /\ {sq \in Squares : bd[sq[1]][sq[2]] = 1} =
           {sq \in Squares : sq[1] \in 5 .. 7 /\ Dark(sq)}
    /\ \A sq \in Squares : bd[sq[1]][sq[2]] \in {-1, 0, 1}
    /\ NumBlue(bd) = 12
    /\ NumRed(bd) = 12

\* C11: on the standard initial board get_all_moves for Red returns exactly
\* the 7 one-step moves of the Red men on row 5 and no capture, and the
\* initial board is the standard set-up of 12 men a side.
C11_OpeningMoves ==
    /\ StandardSetup(initial_board)
    /\ board = initial_board =>
           \A res \in {get_all_moves(board, 1)} :
               /\ Len(res) = 7
               /\ Range(res) = OpeningMoves
               /\ \A m \in Range(res) : ~IsCaptureMove(m)
               /\ captures_of(board, 1) = <<>>

\* C11 witness: one of the 7 opening moves has been applied to the initial
\* board
C11_Witness ==
    /\ Len(turns) = 1
    /\ turns[1].board = initial_board
    /\ turns[1].turn = 1
    /\ <<turns[1].sr, turns[1].sc, turns[1].path>> \in OpeningMoves
    /\ board[turns[1].sr][turns[1].sc] = 0

\* C12: a click on a square that is neither an offered destination nor a
\* piece of the side to move changes neither the board, nor the side to
\* move, nor the undo stack, and with no piece selected it leaves the
\* session without a selection.
C12_IgnoredClick ==
    \A sq \in Squares :
        (/\ phase = "events"
         /\ board[sq[1]][sq[2]] * turn <= 0
         /\ sq \notin move_highlights(legal_paths_for_selected))
            => ~ENABLED (/\ Click(sq[1], sq[2])
                         /\ \/ board' # board
                            \/ turn' # turn
                            \/ undo_stack' # undo_stack
                            \/ selected = None /\ selected' # None)

\* C12 witness: with a move on the board, a click has been ignored
C12_Witness ==
    /\ last_op = "ignored"
    /\ turns # <<>>
    /\ selected = None
    /\ undo_stack # <<>>

\* C13: right after a restart (the R key or the win popup's restart) the
\* session holds the initial board, Red to move, no selection and an empty
\* undo stack, and an undo changes nothing.
C13_RestartResets ==
    last_op = "restart" =>
        /\ board = initial_board
        /\ turn = 1
        /\ selected = None
        /\ legal_paths_for_selected = <<>>
        /\ undo_stack = <<>>
        /\ phase = "events" =>
               ~ENABLED (/\ Undo
                         /\ <<board, turn, selected, legal_paths_for_selected,
                              undo_stack>>' #
                            <<board, turn, selected, legal_paths_for_selected,
                              undo_stack>>)

\* C13 witness: a restart has been handled and the session can take input
C13_Witness ==
    /\ last_op = "restart"
    /\ phase = "events"
    /\ board = initial_board
    /\ turns = <<>>

\* the jump sequences that extend the jump sequence p of the piece on sq by
\* one hop, on the board as it stands after p
Hops(bd, sq, p) ==
    LET cur == IF p = <<>> THEN sq ELSE Last(p)
    IN  UNION {{Append(p, <<cur[1] + 2 * d[1], cur[2] + 2 * d[2]>>) :
                  d \in {x \in Range(scan_dirs(sb[cur[1]][cur[2]])) :
                           can_jump(sb, cur[1], cur[2], x)}} :
               sb \in {scratch_after(bd, sq[1], sq[2], p)}}

RECURSIVE JumpSeqs(_, _, _)
\* the jump sequences of the piece on sq that extend a sequence of frontier,
\* those of frontier included
JumpSeqs(bd, sq, frontier) ==
    IF frontier = {} THEN {}
    ELSE frontier \cup JumpSeqs(bd, sq, UNION {Hops(bd, sq, p) : p \in frontier})

\* the non-empty jump sequences of the piece on sq that no hop extends
MaximalJumpSeqs(bd, sq) ==
    {p \in JumpSeqs(bd, sq, {<<>>}) : p # <<>> /\ Hops(bd, sq, p) = {}}

\* the piece on sq has no jump on bd
NoJumpFrom(bd, sq) ==
    \A d \in Range(scan_dirs(bd[sq[1]][sq[2]])) : ~can_jump(bd, sq[1], sq[2], d)

ProperPrefix(p, q) == Len(p) < Len(q) /\ SubSeq(q, 1, Len(p)) = p

\* C14: every capture path that get_piece_moves returns is non-empty and
\* maximal (on the board that results from the chain the moving piece has no
\* jump from the final square), no returned path is a proper prefix of
\* another, and every maximal jump sequence of the piece is returned.
C14_MaximalChains ==
    \A sq \in Occupied(board) :
        \A ps \in {Range(capture_moves(board, sq[1], sq[2]))} :
            /\ \A p \in ps :
                   /\ p # <<>>
                   /\ NoJumpFrom(apply_move(board, sq[1], sq[2], p), Last(p))
                   /\ NoJumpFrom(scratch_after(board, sq[1], sq[2], p), Last(p))
                   /\ \A q \in ps : ~ProperPrefix(p, q)
            /\ ps = MaximalJumpSeqs(board, sq)

\* C14 witness: a piece has a returned chain of one hop and another of two
\* or more hops
C14_Witness ==
    \E sq \in Occupied(board) :
        \E ps \in {Range(capture_moves(board, sq[1], sq[2]))} :
            \E p, q \in ps : Len(p) = 1 /\ Len(q) >= 2

\* the number of pieces on bd of the side opposing piece
NumOpposing(bd, piece) == IF piece > 0 THEN NumBlue(bd) ELSE NumRed(bd)

\* C17: the capture search returns on every board, and in every returned
\* chain the jumped squares are pairwise distinct and each holds an opposing
\* piece on the input board, so that no chain is longer than the number of
\* opposing pieces on the input board.
C17_NoPieceJumpedTwice ==
    \A sq \in Occupied(board) :
        \A cm \in {capture_moves(board, sq[1], sq[2])} :
            /\ Len(cm) >= 0
            /\ \A p \in Range(cm) :
                   /\ \A i, j \in 1 .. Len(p) :
                          i # j => Mid(sq, p, i) # Mid(sq, p, j)
                   /\ \A i \in 1 .. Len(p) :
                          board[Mid(sq, p, i)[1]][Mid(sq, p, i)[2]]
                              * board[sq[1]][sq[2]] < 0
                   /\ Len(p) <= NumOpposing(board, board[sq[1]][sq[2]])

\* C17 witness: a returned chain comes back to the square it started from
\* and goes on, and it jumps every opposing piece of the board
C17_Witness ==
    \E sq \in Occupied(board) :
        \E p \in Range(capture_moves(board, sq[1], sq[2])) :
            /\ Len(p) = NumOpposing(board, board[sq[1]][sq[2]])
            /\ \E i \in 1 .. Len(p) - 1 : p[i] = sq

\* C15: between a move that leaves a side without pieces and the
\* declaration of the winner no input is handled: from a terminal board the
\* session takes no step that stays in the event loop (no click, undo or
\* restart), so a finished game is left only through the win popup.
C15_TerminalCheckedAfterMove ==
    [][(phase = "events" /\ is_terminal(board)) => phase' # "events"]_vars

\* the last move that stands on the board was a capture
LastMoveJumped ==
    jumped(<<Last(turns).sr, Last(turns).sc>>, Last(turns).path)

\* the last move that stands on the board passed the turn and left no
\* selection
LastMovePassedTurn ==
    /\ turn = switch_turn(Last(turns).turn)
    /\ selected = None
    /\ legal_paths_for_selected = <<>>

\* the captures the piece that moved last has from its landing square
FurtherCaps ==
    capture_moves(board, Last(Last(turns).path)[1], Last(Last(turns).path)[2])

\* C18 as stated: right after a move is applied the piece that moved has no
\* capture from its landing square on the new board, the turn has passed
\* and the selection is cleared.
C18_NoCaptureAfterMove ==
    last_op = "move" => (FurtherCaps = <<>> /\ LastMovePassedTurn)

\* C18 amended: right after a capture is applied the piece that moved has no
\* capture from its landing square (after a single step it may have one);
\* every applied move passes the turn and clears the selection; for no
\* offered path the test "jumped and further_caps" of the continuation branch
\* is true.
C18_NoContinuation ==
    /\ last_op = "move" =>
           /\ LastMoveJumped => FurtherCaps = <<>>
           /\ LastMovePassedTurn
    /\ selected # None =>
           \A p \in Range(legal_paths_for_selected) :
               ~(/\ jumped(selected, p)
                 /\ capture_moves(apply_move(board, selected[1], selected[2], p),
                                  Last(p)[1], Last(p)[2]) # <<>>)

\* C18 witness: a single step has been applied that put the piece where it
\* has a capture, and the turn has passed
C18_Witness ==
    /\ last_op = "move"
    /\ ~LastMoveJumped
    /\ FurtherCaps # <<>>
    /\ LastMovePassedTurn

\* the number of pieces of player on bd
NumOf(bd, player) == IF player > 0 THEN NumRed(bd) ELSE NumBlue(bd)

\* C19: an applied move leaves the mover's number of pieces unchanged and
\* removes one opposing piece per hop of a capture path, none for a single
\* step; each side has at most 12 pieces; the side that has just moved has
\* at least one piece, and the two sides are never both without pieces.
C19_PieceCounts ==
    /\ NumRed(board) <= 12
    /\ NumBlue(board) <= 12
    /\ NumRed(board) + NumBlue(board) > 0
    /\ last_op = "move" =>
           \A t \in {Last(turns)} :
               /\ NumOf(board, t.turn) = NumOf(t.board, t.turn)
               /\ NumOf(board, t.turn) >= 1
               /\ NumOf(board, -t.turn) =
                      NumOf(t.board, -t.turn)
                          - (IF LastMoveJumped THEN Len(t.path) ELSE 0)

\* C19 witness: a capture chain of two or more hops has been applied
C19_Witness ==
    /\ last_op = "move"
    /\ LastMoveJumped
    /\ Len(Last(turns).path) >= 2
    /\ NumOf(board, turn) = NumOf(Last(turns).board, turn) - Len(Last(turns).path)

\* C20: with the whole undo history on the stack, Red is to move exactly
\* when the stack has even length, the snapshots alternate Red, Blue, Red,
\* ... from the bottom, and the bottom snapshot is the initial board with
\* Red to move.
C20_TurnFromHistory ==
    history = "full" =>
        /\ turn = 1 <=> Len(undo_stack) % 2 = 0
        /\ turn \in Sides
        /\ \A i \in 1 .. Len(undo_stack) :
               undo_stack[i][2] = (IF i % 2 = 1 THEN 1 ELSE -1)
        /\ undo_stack # <<>> => undo_stack[1] = <<initial_board, 1>>

\* C20 witness: two moves have been applied from the initial board and Red
\* is to move again
C20_Witness ==
    /\ history = "full"
    /\ Len(undo_stack) = 2
    /\ last_op = "move"
    /\ turn = 1

\* the side to move has a piece and get_all_moves returns no move for it
Stalemate == NumOf(board, turn) >= 1 /\ get_all_moves(board, turn) = <<>>

\* C16: in a stalemate (the side to move has a piece and no move) the game
\* is not terminal and has no winner and a selected piece is offered
\* nothing; a step that changes the board or the side to move from there is
\* an undo or a restart, never a click.
C16_StalemateNotTerminal ==
    /\ [](Stalemate =>
              /\ ~is_terminal(board)
              /\ winner(board) = "None"
              /\ selected # None => legal_paths_for_selected = <<>>)
    /\ [][((board' # board \/ turn' # turn \/ undo_stack' # undo_stack)
              /\ Stalemate)
             => (Undo \/ Restart)]_vars

\* C16 witness: in a stalemate, with a move still allowed, the player has
\* selected a piece and is offered nothing
C16_Witness ==
    /\ Stalemate
    /\ phase = "events"
    /\ Len(undo_stack) < PlyBound
    /\ last_op = "select"
    /\ selected # None
    /\ legal_paths_for_selected = <<>>

\* chain p of piece touches the far edge row of piece on a square that is
\* not its last, and does not end on that row
TouchedFarRowBeforeEnd(piece, p) ==
    /\ \E i \in 1 .. Len(p) - 1 : p[i][1] = FarRow(piece)
    /\ Last(p)[1] # FarRow(piece)

\* C21: for every capture path that get_piece_moves returns, the board
\* apply_move produces equals the scratch board the search holds at the end
\* of the path on every square, except that the moving piece may be a King
\* on the scratch board and still a Man on the applied board, when the chain
\* touched the far edge row only on a square that is not its last.
C21_GeneratorApplicatorAgree ==
    \A sq \in Occupied(board) :
        \A p \in Range(capture_moves(board, sq[1], sq[2])) :
            \A applied \in {apply_move(board, sq[1], sq[2], p)},
               scratch \in {scratch_after(board, sq[1], sq[2], p)},
               piece \in {board[sq[1]][sq[2]]} :
                /\ \A x \in Squares \ {Last(p)} :
                       applied[x[1]][x[2]] = scratch[x[1]][x[2]]
                /\ \/ applied[Last(p)[1]][Last(p)[2]] = scratch[Last(p)[1]][Last(p)[2]]
                   \/ /\ Abs(piece) = 1
                      /\ applied[Last(p)[1]][Last(p)[2]] = piece
                      /\ scratch[Last(p)[1]][Last(p)[2]] = 2 * piece
                      /\ TouchedFarRowBeforeEnd(piece, p)

\* C21 witness: a returned chain of a Man touches the far edge row and ends
\* elsewhere: the piece is a King on the scratch board, a Man on the applied
\* board, and the boards agree on the jumped squares
C21_Witness ==
    \E sq \in ManSquares(board) :
        \E p \in Range(capture_moves(board, sq[1], sq[2])) :
            /\ TouchedFarRowBeforeEnd(board[sq[1]][sq[2]], p)
            /\ apply_move(board, sq[1], sq[2], p)[Last(p)[1]][Last(p)[2]]
                   = board[sq[1]][sq[2]]
            /\ scratch_after(board, sq[1], sq[2], p)[Last(p)[1]][Last(p)[2]]
                   = 2 * board[sq[1]][sq[2]]
            /\ apply_move(board, sq[1], sq[2], p)[Mid(sq, p, 1)[1]][Mid(sq, p, 1)[2]] = 0

====
